---- MODULE Spec2Model ----
(***************************************************************************)
(* A model of the Dynamic Time Warping module dtw.js (DTWDist) and of the  *)
(* class reduction of examples/twdtw_sudan.js (DTWClassification).         *)
(*                                                                         *)
(* Numbers.  The Earth Engine values are floating point.  The model keeps  *)
(* every cost in fixed point: a cost c is held as the integer c * Scale,   *)
(* square roots and exponentials are rounded down to that grid.  Band      *)
(* values, day-of-year values and beta are integers; alpha is held as      *)
(* alpha * Scale.                                                          *)
(*                                                                         *)
(* Lists.  Earth Engine lists and arrays are 0-based and accept negative   *)
(* positions (counted from the end); TLA+ sequences are 1-based.  Index    *)
(* converts.  ee.List.sequence(a, b) with b < a is the empty list.         *)
(***************************************************************************)
EXTENDS Integers, Sequences, FiniteSets, TLC

VARIABLES
    timeseries_col,   \* the image collection: a sequence of [doy, bands]
    patterns_arr,     \* the array [k, n, t]: patterns x (bands + doy) x steps
    options,          \* the options dictionary; a field is <<>> when omitted
    pc,               \* position of DTWDist
    k,                \* the pattern being aligned (1-based, as in the code)
    dis_mat,          \* the local cost matrix of pattern k
    d_mat,            \* the first row of the cumulative matrix, being built
    D_mat,            \* the cumulative cost matrix
    x,                \* position in the list `matrix` of interior cells
    dtw_image_list,   \* the distance of each pattern aligned so far
    result,           \* what DTWDist returns
    class_dist,       \* DTWClassification: what DTWDist returns for each class key
    class_list,       \* DTWClassification: the per-class images (dtw, band)
    array,            \* DTWClassification: the images as a 2-D array
    sorted,           \* DTWClassification: the array sorted by score
    min_px,           \* DTWClassification: the first row, as (dtw, band)
    signatures,       \* prepareSignatures: the feature collection
    args,             \* prepareSignatures: class_no, band_no, patterns_len, band_names
    train_points,     \* prepareSignatures: the features of the class
    table_points_list,\* prepareSignatures: a list of values per feature
    prepared          \* prepareSignatures: the array it returns

vars == <<timeseries_col, patterns_arr, options, pc, k, dis_mat, d_mat, D_mat,
          x, dtw_image_list, result, class_dist, class_list, array, sorted, min_px,
          signatures, args, train_points, table_points_list, prepared>>

dtw_vars == <<timeseries_col, patterns_arr, options, k, dis_mat, d_mat, D_mat,
              x, dtw_image_list, result>>

class_vars == <<class_dist, class_list, array, sorted, min_px>>

prep_vars == <<signatures, args, train_points, table_points_list, prepared>>

-----------------------------------------------------------------------------
(* Bounds of the model *)

\* fixed-point grid: a cost c is the integer c * Scale
Scale == 100
\* longest observation series and longest pattern
MaxLen == 3
\* most patterns of one class
MaxPatterns == 2
\* most measurement bands
MaxBands == 2
\* largest class key (the keys are 0 .. MaxClass)
MaxClass == 3

(* Program constants *)

\* the penalty of a cell outside the window, ee.Image(1e6)
Penalty == 1000000
\* default of options.beta
BetaDefault == 50
\* range of toInt16 and of toUint16
Int16Max == 32767
Int16Min == -32768
Uint16Max == 65535
\* range of toByte
ByteMax == 255

(* Precision of the model's exponential: Exp is e^z times ExpPrec *)
ExpPrec == 1000000

(* Precision of the cosine of the angular distance *)
AnglePrec == 1000

-----------------------------------------------------------------------------
(* Arithmetic *)

Abs(a) == IF a < 0 THEN -a ELSE a

Min2(a, b) == IF a <= b THEN a ELSE b

Max2(a, b) == IF a >= b THEN a ELSE b

\* ee.List.sequence(a, b): a, a+1, ..., b; empty when b < a
Sequence(a, b) == [m \in 1..Max2(b - a + 1, 0) |-> a + m - 1]

\* element at 0-based position p of an Earth Engine list or array axis;
\* a negative p counts from the end
Index(s, p) == IF p < 0 THEN s[Len(s) + p + 1] ELSE s[p + 1]

\* whether position p exists in s
InRange(s, p) == IF p < 0 THEN -p <= Len(s) ELSE p < Len(s)

\* .sqrt() of a fixed-point cost c, on the fixed-point grid
SqrtFP(c) == CHOOSE r \in 0..Max2(c, Scale) : r * r <= c * Scale /\ (r + 1) * (r + 1) > c * Scale

\* .toInt16(): saturating cast
ToInt16(v) == IF v > Int16Max THEN Int16Max ELSE IF v < Int16Min THEN Int16Min ELSE v

\* .toUint16() of a fixed-point cost: the fraction is dropped and the value
\* saturates; the result is a plain integer
ToUint16(c) == IF c < 0 THEN 0 ELSE IF c \div Scale > Uint16Max THEN Uint16Max ELSE c \div Scale

-----------------------------------------------------------------------------
(* The options of DTWDist, dtw.js lines 61 to 69: `options.f || default` *)

\* a numeric option: the default replaces an omitted value and the value 0
OrNumber(o, d) == IF o = <<>> THEN d ELSE IF o[1] = 0 THEN d ELSE o[1]

\* a string option: the default replaces an omitted value and the empty string
OrString(o, d) == IF o = <<>> THEN d ELSE IF o[1] = "" THEN d ELSE o[1]

patterns_no == OrNumber(options.patterns_no, Len(patterns_arr))

band_no == OrNumber(options.band_no, Len(patterns_arr[1]) - 1)

timeseries_len == OrNumber(options.timeseries_len, Len(timeseries_col))

patterns_len == OrNumber(options.patterns_len, Len(patterns_arr[1][1]))

constraint_type == OrString(options.constraint_type, "time-weighted")

weight_type == OrString(options.weight_type, "logistic")

distance_type == OrString(options.distance_type, "euclidean")

beta == OrNumber(options.beta, BetaDefault)

\* alpha in fixed point; the default is 0.1
alpha == OrNumber(options.alpha, Scale \div 10)

-----------------------------------------------------------------------------
(* The exponential, for the logistic weight.  Exp(z) is e^(z / Scale) *)
(* times ExpPrec, for an exponent z given in fixed point.              *)

\* the Taylor series of e^(r / Scale), 0 <= r < Scale, from term t on
RECURSIVE ExpTerms(_, _, _)
ExpTerms(t, r, n) == IF t = 0 THEN 0 ELSE t + ExpTerms((t * r) \div (Scale * n), r, n + 1)

\* v * a / b, rounded down, without an intermediate product beyond 32 bits
MulDiv(v, a, b) == (v \div b) * a + ((v % b) * a) \div b

\* v times e^q for an integer q (e = 2.7183)
RECURSIVE ExpShift(_, _)
ExpShift(v, q) == IF q = 0 THEN v ELSE IF q > 0 THEN ExpShift(MulDiv(v, 27183, 10000), q - 1) ELSE ExpShift(MulDiv(v, 10000, 27183), q + 1)

Exp(z) == ExpShift(ExpTerms(ExpPrec, z % Scale, 1), z \div Scale)

\* ee.Image(1).divide(e): Earth Engine's divide returns 0 for a division by 0
OneOver(e) == IF e = 0 THEN 0 ELSE (Scale * ExpPrec) \div e

-----------------------------------------------------------------------------
(* _distCalc, dtw.js lines 77 to 101.  dis_arr is a fixed-point cost.       *)

\* patterns_arr.get([a, b, c]), 0-based, negative positions from the end
PatternsGet(a, b, c) == Index(Index(Index(patterns_arr, a), b), c)

\* x1: band n of the image, as Int16
x1(img, n) == ToInt16(Index(img.bands, n - 1))

\* y1: band n of pattern kk at step j
y1(kk, n, j) == PatternsGet(kk - 1, n - 1, j - 1)

\* dis_arr for distance_type = 'euclidean' (line 87)
EuclideanArr(img, n, j, kk) == (x1(img, n) - y1(kk, n, j)) * (x1(img, n) - y1(kk, n, j)) * Scale

\* the images that pass the filter doy <= doy of img (line 89)
NotLater(img) == {a \in 1..Len(timeseries_col) : timeseries_col[a].doy <= img.doy}

\* how many images of NotLater(img) come before image a when they are ordered
\* by descending doy; images of the same doy in the order of the collection
RankBefore(img, a) == Cardinality({b \in NotLater(img) : timeseries_col[b].doy > timeseries_col[a].doy \/ (timeseries_col[b].doy = timeseries_col[a].doy /\ b < a)})

\* img_prev (lines 89 and 90): of the two latest images that are not later
\* than img, the earlier one; img itself when there is no other
img_prev(img) == timeseries_col[CHOOSE a \in NotLater(img) : RankBefore(img, a) = Min2(1, Cardinality(NotLater(img)) - 1)]

\* x2: band n of img_prev, as Int16 (line 91)
x2(img, n) == ToInt16(Index(img_prev(img).bands, n - 1))

\* y2: band n of pattern kk at list position j - 2 (line 92); for j = 1 the
\* position is -1, the last step of the pattern
y2(kk, n, j) == PatternsGet(kk - 1, n - 1, j - 2)

\* the alternating Taylor series of cos(a / Scale), from term t of index n on
RECURSIVE CosTerms(_, _, _)
CosTerms(t, a, n) == IF t = 0 THEN 0 ELSE t - CosTerms((((t * a) \div (Scale * (2 * n + 1))) * a) \div (Scale * (2 * n + 2)), a, n + 1)

\* cos(a / Scale) times AnglePrec, rounded down
Cos(a) == CosTerms(ExpPrec, a, 0) \div (ExpPrec \div AnglePrec)

\* pi, fixed point
Pi == (314159 * Scale) \div 100000

\* .acos() of r / AnglePrec, fixed point, rounded down
Acos(r) == CHOOSE a \in 0..Pi : Cos(a) >= r /\ (a = Pi \/ Cos(a + 1) < r)

\* the square root of c, rounded down, for c up to AnglePrec * AnglePrec
IntSqrt(c) == CHOOSE r \in 0..AnglePrec : r * r <= c /\ (r = AnglePrec \/ (r + 1) * (r + 1) > c)

\* (dot / (sqrt(nx) * sqrt(ny))) times AnglePrec (lines 93 and 94); Earth
\* Engine's divide returns 0 for a division by 0
CosineOf(dot, nx, ny) == IF nx * ny = 0 THEN 0 ELSE IF dot >= 0 THEN IntSqrt((dot * dot * AnglePrec * AnglePrec) \div (nx * ny)) ELSE -IntSqrt((dot * dot * AnglePrec * AnglePrec) \div (nx * ny))

\* dis_arr for distance_type = 'angular' (lines 89 to 95)
AngularArr(img, n, j, kk) == Acos(CosineOf(x1(img, n) * y1(kk, n, j) + x2(img, n) * y2(kk, n, j), x1(img, n) * x1(img, n) + x2(img, n) * x2(img, n), y1(kk, n, j) * y1(kk, n, j) + y2(kk, n, j) * y2(kk, n, j)))

\* dis_arr (lines 86 to 96)
dis_arr(img, n, j, kk) == IF distance_type = "angular" THEN AngularArr(img, n, j, kk) ELSE EuclideanArr(img, n, j, kk)

\* wrap(n, previous2): the distance of band n added to the running sum
Wrap(img, j, kk, n, previous2) == dis_arr(img, n, j, kk) + previous2

\* ee.List.sequence(1, band_no).iterate(_distCalc(img, j, k), ee.Image(0))
RECURSIVE IterateBands(_, _, _, _)
IterateBands(img, j, kk, n) == IF n <= 0 THEN 0 ELSE Wrap(img, j, kk, n, IterateBands(img, j, kk, n - 1))

dis_sum(img, j, kk) == IterateBands(img, j, kk, band_no)

\* lines 195 to 197: under 'angular' dis_sum is multiplied by whether the
\* doy of img differs from the doy of the first image of the collection
ZeroFirst(img, c) == IF distance_type = "angular" THEN (IF img.doy /= timeseries_col[1].doy THEN c ELSE 0) ELSE c

-----------------------------------------------------------------------------
(* The local cost matrix, dtw.js lines 116 to 212 *)

\* time_arr: the day gap between an image and step j of pattern kk
time_arr(img, j, kk) == Abs(img.doy - PatternsGet(kk - 1, -1, j - 1))

\* dt_list (lines 118 to 133): one feature per image and pattern step,
\* flattened; 'i' holds the day of year of the image
dt_list(kk) == [m \in 1..(Len(timeseries_col) * Max2(patterns_len, 0)) |-> [dt |-> time_arr(timeseries_col[((m - 1) \div patterns_len) + 1], ((m - 1) % patterns_len) + 1, kk), i |-> timeseries_col[((m - 1) \div patterns_len) + 1].doy, j |-> ((m - 1) % patterns_len) + 1]]

\* the features of dt_list kept by the filter i = doy and dt <= beta (line 139)
InsideFilter(kk, img) == LET keep(f) == f.i = img.doy /\ f.dt <= beta IN SelectSeq(dt_list(kk), keep)

\* the features of dt_list kept by the filter i = doy and dt > beta (line 161)
OutsideFilter(kk, img) == LET keep(f) == f.i = img.doy /\ f.dt > beta IN SelectSeq(dt_list(kk), keep)

\* dis_list0 (lines 144 to 158): the cost of every step inside the window
dis_list0(kk, img) == LET patterns_tmp == InsideFilter(kk, img) IN [m \in 1..Len(patterns_tmp) |-> [v |-> SqrtFP(dis_sum(img, patterns_tmp[m].j, kk)), j |-> patterns_tmp[m].j]]

\* dis_list (lines 166 to 170): the penalty for every step outside the window
PenaltyList(kk, img) == LET patterns_tmp == OutsideFilter(kk, img) IN [m \in 1..Len(patterns_tmp) |-> [v |-> Penalty * Scale, j |-> patterns_tmp[m].j]]

\* .sort('j'): ascending in j, elements of equal j keep their order
RECURSIVE SortByJ(_, _)
SortByJ(s, jv) == IF jv > patterns_len THEN <<>> ELSE LET is(f) == f.j = jv IN SelectSeq(s, is) \o SortByJ(s, jv + 1)

\* one row of dis_mat for constraint_type = 'time-constrained' (lines 172 to 176)
ConstrainedRow(kk, img) == LET srt == SortByJ(dis_list0(kk, img) \o PenaltyList(kk, img), 1) IN [m \in 1..Len(srt) |-> srt[m].v]

\* cost_weight for weight_type = 'logistic' (lines 200 to 202):
\* 1 / exp(1 + alpha * (time_arr - beta))
LogisticWeight(dt) == OneOver(Exp(Scale + alpha * (dt - beta)))

\* cost_weight for weight_type = 'linear' (line 204): alpha * time_arr + beta
LinearWeight(dt) == alpha * dt + beta * Scale

cost_weight(dt) == IF weight_type = "logistic" THEN LogisticWeight(dt) ELSE LinearWeight(dt)

\* one row of dis_mat for constraint_type = 'time-weighted' (lines 185 to 208)
WeightedRow(kk, img) == [j \in 1..Max2(patterns_len, 0) |-> SqrtFP(ZeroFirst(img, dis_sum(img, j, kk))) + cost_weight(time_arr(img, j, kk))]

\* dis_mat: one row per image of the collection, in the order of the collection
LocalCost(kk) == [a \in 1..Len(timeseries_col) |-> IF constraint_type = "time-constrained" THEN ConstrainedRow(kk, timeseries_col[a]) ELSE WeightedRow(kk, timeseries_col[a])]

-----------------------------------------------------------------------------
(* What makes DTWDist fail instead of returning an image *)

\* no branch of lines 116 to 212 assigns dis_mat: dis_mat.get(0) on line 215
\* is a call on undefined
NoCostMatrix == constraint_type /= "time-constrained" /\ constraint_type /= "time-weighted"

\* no branch of lines 199 to 205 assigns cost_weight
NoCostWeight == constraint_type = "time-weighted" /\ weight_type /= "logistic" /\ weight_type /= "linear"

\* no branch of lines 86 to 96 assigns dis_arr
NoDisArr == distance_type /= "euclidean" /\ distance_type /= "angular"

\* line 154 reads t1, which the time-constrained branch never declares
UndeclaredT1 == constraint_type = "time-constrained" /\ distance_type = "angular"

\* a position that the lists and arrays read for pattern kk do not have
OutOfRange(kk) == \/ kk > Len(patterns_arr)
                  \/ Len(timeseries_col) < 1
                  \/ patterns_len < 1
                  \/ patterns_len > Len(patterns_arr[1][1])
                  \/ timeseries_len > Len(timeseries_col)
                  \/ band_no > Len(patterns_arr[1])
                  \/ \E a \in 1..Len(timeseries_col) : band_no > Len(timeseries_col[a].bands)

Fails(kk) == NoCostMatrix \/ NoCostWeight \/ NoDisArr \/ UndeclaredT1 \/ OutOfRange(kk)

-----------------------------------------------------------------------------
(* The cumulative cost matrix, dtw.js lines 103 to 112 and 214 to 244 *)

\* as matrix, the rows from the last to the first
matrixRowsDescending == [m \in 1..(Max2(timeseries_len - 1, 0) * Max2(patterns_len - 1, 0)) |-> <<timeseries_len - 1 - ((m - 1) \div (patterns_len - 1)), ((m - 1) % (patterns_len - 1)) + 1>>]

\* as matrix, the cells in the opposite order
matrixReversed == [m \in 1..(Max2(timeseries_len - 1, 0) * Max2(patterns_len - 1, 0)) |-> <<timeseries_len - 1 - ((m - 1) \div (patterns_len - 1)), patterns_len - 1 - ((m - 1) % (patterns_len - 1))>>]

\* matrix (lines 103 to 112): the interior cells [i, j], row after row
matrix == [m \in 1..(Max2(timeseries_len - 1, 0) * Max2(patterns_len - 1, 0)) |-> <<((m - 1) \div (patterns_len - 1)) + 1, ((m - 1) % (patterns_len - 1)) + 1>>]

\* line 221: cell j of the first row
FirstRowCell(previous, j) == Index(previous, j - 1) + Index(Index(dis_mat, 0), j)

\* line 229: cell 0 of row i
FirstColCell(previous, i) == Index(Index(previous, i - 1), 0) + Index(Index(dis_mat, i), 0)

\* line 230: row i starts as a copy of row i - 1 with cell 0 replaced
NewRow(previous, i) == [Index(previous, i - 1) EXCEPT ![1] = FirstColCell(previous, i)]

\* as InteriorCell, without the neighbour of the previous row
InteriorCellNoUpper(previous, i, j) == Min2(Index(Index(previous, i), j - 1), Index(Index(previous, i - 1), j - 1)) + Index(Index(dis_mat, i), j)

\* as InteriorCell, without the diagonal neighbour
InteriorCellNoDiagonal(previous, i, j) == Min2(Index(Index(previous, i - 1), j), Index(Index(previous, i), j - 1)) + Index(Index(dis_mat, i), j)

\* lines 237 and 238: an interior cell
InteriorCell(previous, i, j) == Min2(Min2(Index(Index(previous, i - 1), j), Index(Index(previous, i), j - 1)), Index(Index(previous, i - 1), j - 1)) + Index(Index(dis_mat, i), j)

\* ee.ImageCollection(list).min(): the smallest element of a non-empty list
MinOf(list) == CHOOSE v \in {list[m] : m \in 1..Len(list)} : \A m \in 1..Len(list) : v <= list[m]

-----------------------------------------------------------------------------
(* DTWDist, step by step *)

\* lines 56 to 114: the options are read and the patterns are mapped over
StartMap ==
    /\ pc = "map"
    /\ k' = 1
    /\ pc' = IF patterns_no >= 1 THEN "dis_mat" ELSE "min"
    /\ UNCHANGED <<timeseries_col, patterns_arr, options, dis_mat, d_mat, D_mat, x, dtw_image_list, result>>
    /\ UNCHANGED class_vars
    /\ UNCHANGED prep_vars

\* lines 116 to 216: the local cost matrix of pattern k and the first cell
BuildDisMat ==
    /\ pc = "dis_mat"
    /\ IF Fails(k)
       THEN /\ pc' = "error"
            /\ UNCHANGED <<dis_mat, d_mat>>
       ELSE /\ dis_mat' = LocalCost(k)
            /\ d_mat' = <<Index(Index(dis_mat', 0), 0)>>
            /\ pc' = "row0"
    /\ UNCHANGED <<timeseries_col, patterns_arr, options, k, D_mat, x, dtw_image_list, result>>
    /\ UNCHANGED class_vars
    /\ UNCHANGED prep_vars

\* lines 218 to 223: one step of the iteration over j = 1 .. patterns_len - 1
Row0Step ==
    /\ pc = "row0"
    /\ Len(d_mat) <= patterns_len - 1
    /\ d_mat' = Append(d_mat, FirstRowCell(d_mat, Len(d_mat)))
    /\ UNCHANGED <<timeseries_col, patterns_arr, options, pc, k, dis_mat, D_mat, x, dtw_image_list, result>>
    /\ UNCHANGED class_vars
    /\ UNCHANGED prep_vars

\* line 224: the first row is complete
Row0Done ==
    /\ pc = "row0"
    /\ Len(d_mat) > patterns_len - 1
    /\ D_mat' = <<d_mat>>
    /\ pc' = "col0"
    /\ UNCHANGED <<timeseries_col, patterns_arr, options, k, dis_mat, d_mat, x, dtw_image_list, result>>
    /\ UNCHANGED class_vars
    /\ UNCHANGED prep_vars

\* lines 226 to 231: one step of the iteration over i = 1 .. timeseries_len - 1
Col0Step ==
    /\ pc = "col0"
    /\ Len(D_mat) <= timeseries_len - 1
    /\ D_mat' = Append(D_mat, NewRow(D_mat, Len(D_mat)))
    /\ UNCHANGED <<timeseries_col, patterns_arr, options, pc, k, dis_mat, d_mat, x, dtw_image_list, result>>
    /\ UNCHANGED class_vars
    /\ UNCHANGED prep_vars

\* line 231: the first column is complete
Col0Done ==
    /\ pc = "col0"
    /\ Len(D_mat) > timeseries_len - 1
    /\ x' = 0
    /\ pc' = "interior"
    /\ UNCHANGED <<timeseries_col, patterns_arr, options, k, dis_mat, d_mat, D_mat, dtw_image_list, result>>
    /\ UNCHANGED class_vars
    /\ UNCHANGED prep_vars

\* lines 233 to 240: one step of the iteration over x = 0 .. matrix.length() - 1
InteriorStep ==
    /\ pc = "interior"
    /\ x <= Len(matrix) - 1
    /\ D_mat' = [D_mat EXCEPT ![Index(matrix, x)[1] + 1][Index(matrix, x)[2] + 1] = InteriorCell(D_mat, Index(matrix, x)[1], Index(matrix, x)[2])]
    /\ x' = x + 1
    /\ UNCHANGED <<timeseries_col, patterns_arr, options, pc, k, dis_mat, d_mat, dtw_image_list, result>>
    /\ UNCHANGED class_vars
    /\ UNCHANGED prep_vars

\* lines 242 to 245: the last cell of the last row is the distance of pattern k
Project ==
    /\ pc = "interior"
    /\ x > Len(matrix) - 1
    /\ dtw_image_list' = Append(dtw_image_list, Index(Index(D_mat, -1), -1))
    /\ IF k < patterns_no
       THEN k' = k + 1 /\ pc' = "dis_mat"
       ELSE k' = k /\ pc' = "min"
    /\ UNCHANGED <<timeseries_col, patterns_arr, options, dis_mat, d_mat, D_mat, x, result>>
    /\ UNCHANGED class_vars
    /\ UNCHANGED prep_vars

\* line 247: ee.ImageCollection(dtw_image_list).min().toUint16()
Reduce ==
    /\ pc = "min"
    /\ result' = IF dtw_image_list = <<>> THEN <<>> ELSE <<ToUint16(MinOf(dtw_image_list))>>
    /\ pc' = "done"
    /\ UNCHANGED <<timeseries_col, patterns_arr, options, k, dis_mat, d_mat, D_mat, x, dtw_image_list>>
    /\ UNCHANGED class_vars
    /\ UNCHANGED prep_vars

Next == StartMap \/ BuildDisMat \/ Row0Step \/ Row0Done \/ Col0Step \/ Col0Done \/ InteriorStep \/ Project \/ Reduce

-----------------------------------------------------------------------------
(* The inputs the model runs DTWDist on *)

\* band values
BandValues == {1, 2}

\* day-of-year values
DoyValues == {1, 2, 4}

\* an options dictionary with every option omitted
NoOptions == [patterns_no |-> <<>>, band_no |-> <<>>, timeseries_len |-> <<>>, patterns_len |-> <<>>, constraint_type |-> <<>>, weight_type |-> <<>>, distance_type |-> <<>>, beta |-> <<>>, alpha |-> <<>>]

\* the collections of N images, band vectors in VS, day-of-year sequences in DS
Collections(N, VS, DS) == {[a \in 1..N |-> [doy |-> ds[a], bands |-> vs[a]]] : ds \in DS, vs \in VS}

\* every sequence of n band vectors of B bands
Vectors(n, B) == [1..n -> [1..B -> BandValues]]

\* the single-band series 1, 1, ... and 1, ..., 1, 2 of n steps
Shapes(n) == {[m \in 1..n |-> <<1>>], [m \in 1..n |-> <<IF m = n THEN 2 ELSE 1>>]}

\* the patterns of P steps with B bands, band sequences in VS, day-of-year sequences in DS
Patterns(P, B, VS, DS) == {[n \in 1..(B + 1) |-> IF n <= B THEN vs[n] ELSE ds] : vs \in [1..B -> VS], ds \in DS}

\* 1, 2, ..., n: one image or pattern step per day
Daily(n) == {[m \in 1..n |-> m]}

\* the non-decreasing sequences of n day-of-year values
Ascending(n) == {ds \in [1..n -> DoyValues] : \A m \in 1..(n - 1) : ds[m] <= ds[m + 1]}

\* the first n values of the pattern 1, 2, 2, ...
Ramp(n) == {[m \in 1..n |-> IF m = 1 THEN 1 ELSE 2]}

\* the band vectors of the model for B bands: all 1, all 2, or 1 then 2s
BandVectors(B) == {[n \in 1..B |-> 1], [n \in 1..B |-> 2], [n \in 1..B |-> IF n = 1 THEN 1 ELSE 2]}

\* the patterns of P steps with B bands whose steps are band vectors of the model
VectorPatterns(P, B) == {[n \in 1..(B + 1) |-> IF n <= B THEN [m \in 1..P |-> vs[m][n]] ELSE [m \in 1..P |-> m]] : vs \in [1..P -> BandVectors(B)]}

\* the band sequences 1, ..., 1 and 1, ..., 1, 2 and 1, 2, ..., 2 of n steps
BandShapes(n) == Ramp(n) \cup {[m \in 1..n |-> 1], [m \in 1..n |-> IF m = n THEN 2 ELSE 1]}

\* constraint type and beta of the aligned inputs
AlignedOptions == {[NoOptions EXCEPT !.constraint_type = <<"time-weighted">>, !.beta = <<1>>], [NoOptions EXCEPT !.constraint_type = <<"time-constrained">>], [NoOptions EXCEPT !.constraint_type = <<"time-constrained">>, !.beta = <<1>>], [NoOptions EXCEPT !.constraint_type = <<"none">>], NoOptions}

\* one pattern, one band, daily steps, every band value; every constraint type
AlignedInputs == {[col |-> c, arr |-> <<p>>, opt |-> o] : c \in UNION {Collections(N, Vectors(N, 1), Daily(N)) : N \in 1..MaxLen}, p \in UNION {Patterns(P, 1, [1..P -> BandValues], Daily(P)) : P \in 1..MaxLen}, o \in AlignedOptions}

\* time-constrained: images in any order of any days, also repeated days,
\* against patterns of fewer than MaxLen steps
WindowedInputs == {[col |-> c, arr |-> <<p>>, opt |-> [NoOptions EXCEPT !.constraint_type = <<"time-constrained">>, !.beta = <<2>>]] : c \in UNION {Collections(N, Shapes(N), [1..N -> DoyValues]) : N \in 1..MaxLen}, p \in UNION {Patterns(P, 1, Ramp(P), Ascending(P)) : P \in 1..(MaxLen - 1)}}

\* time-weighted: both weights, several alpha and beta
WeightedInputs == {[col |-> c, arr |-> <<p>>, opt |-> [NoOptions EXCEPT !.constraint_type = <<"time-weighted">>, !.weight_type = wt, !.alpha = al, !.beta = b]] : c \in UNION {Collections(N, Shapes(N), Ascending(N)) : N \in 1..(MaxLen - 1)}, p \in UNION {Patterns(P, 1, Ramp(P), Ascending(P)) : P \in 1..(MaxLen - 1)}, wt \in {<<"logistic">>, <<"linear">>}, al \in {<<>>, <<Scale>>}, b \in {<<1>>, <<2>>, <<3>>}}

\* several patterns of one class; the size options are omitted or given
ClassInputs == {[col |-> c, arr |-> ps, opt |-> [NoOptions EXCEPT !.constraint_type = ct, !.patterns_no = IF given THEN <<Len(ps)>> ELSE <<>>, !.timeseries_len = IF given THEN <<Len(c)>> ELSE <<>>]] : c \in UNION {Collections(N, Shapes(N), Daily(N)) : N \in 1..(MaxLen - 1)}, ps \in UNION {[1..kn -> Patterns(P, 1, BandShapes(P), Daily(P))] : kn \in 2..MaxPatterns, P \in 1..(MaxLen - 1)}, ct \in {<<>>, <<"time-constrained">>}, given \in BOOLEAN}

\* several bands; the size options are omitted or given
BandInputs == {[col |-> c, arr |-> <<p>>, opt |-> [NoOptions EXCEPT !.constraint_type = ct, !.band_no = IF given THEN <<MaxBands>> ELSE <<>>, !.patterns_len = IF given THEN <<Len(p[1])>> ELSE <<>>]] : c \in UNION {Collections(N, [1..N -> BandVectors(MaxBands)], Daily(N)) : N \in 1..(MaxLen - 1)}, p \in UNION {VectorPatterns(P, MaxBands) : P \in 1..(MaxLen - 1)}, ct \in {<<>>, <<"time-constrained">>}, given \in BOOLEAN}

\* the observation has one band more, or one band less, than the patterns;
\* also the empty collection
MismatchedInputs == {[col |-> c, arr |-> <<p>>, opt |-> o] : c \in UNION {Collections(N, [1..N -> BandVectors(2)], Daily(N)) : N \in 0..2}, p \in UNION {Patterns(P, 1, BandShapes(P), Daily(P)) : P \in 1..2}, o \in {NoOptions, [NoOptions EXCEPT !.constraint_type = <<"time-constrained">>]}} \cup {[col |-> c, arr |-> <<p>>, opt |-> NoOptions] : c \in UNION {Collections(N, Shapes(N), Daily(N)) : N \in 1..2}, p \in UNION {Patterns(P, 2, BandShapes(P), Daily(P)) : P \in 1..2}}

\* option values outside the documented sets, empty strings, beta 0 and alpha 0
OddOptions == {[NoOptions EXCEPT !.constraint_type = <<"dtw">>], [NoOptions EXCEPT !.constraint_type = <<"">>], [NoOptions EXCEPT !.constraint_type = <<"time-constrained">>, !.weight_type = <<"cubic">>], [NoOptions EXCEPT !.constraint_type = <<"time-weighted">>, !.weight_type = <<"cubic">>], [NoOptions EXCEPT !.distance_type = <<"manhattan">>], [NoOptions EXCEPT !.constraint_type = <<"time-constrained">>, !.beta = <<0>>], [NoOptions EXCEPT !.weight_type = <<"linear">>, !.alpha = <<0>>, !.beta = <<1>>], [NoOptions EXCEPT !.alpha = <<0>>, !.beta = <<0>>]}

\* one pattern, one band, daily steps, under the odd options
OddInputs == {[col |-> c, arr |-> <<p>>, opt |-> o] : c \in UNION {Collections(N, Shapes(N), Daily(N)) : N \in 1..2}, p \in UNION {Patterns(P, 1, Ramp(P), Daily(P)) : P \in 1..2}, o \in OddOptions}

\* angular distance: every single-band series of daily images against one
\* pattern of daily steps (flat, ramp, or flat with a last step of 2), under
\* both supported constraint types
AngularInputs == {[col |-> c, arr |-> <<p>>, opt |-> [NoOptions EXCEPT !.distance_type = <<"angular">>, !.constraint_type = ct]] : c \in UNION {Collections(N, Vectors(N, 1), Daily(N)) : N \in 1..MaxLen}, p \in UNION {Patterns(P, 1, BandShapes(P), Daily(P)) : P \in 1..MaxLen}, ct \in {<<>>, <<"time-constrained">>}}

Inputs == AlignedInputs \cup WindowedInputs \cup WeightedInputs \cup ClassInputs \cup BandInputs \cup MismatchedInputs \cup OddInputs \cup AngularInputs

Init ==
    /\ \E in \in Inputs :
          /\ timeseries_col = in.col
          /\ patterns_arr = in.arr
          /\ options = in.opt
    /\ pc = "map"
    /\ k = 0
    /\ dis_mat = <<>>
    /\ d_mat = <<>>
    /\ D_mat = <<>>
    /\ x = 0
    /\ dtw_image_list = <<>>
    /\ result = <<>>
    /\ class_dist = <<>>
    /\ class_list = <<>>
    /\ array = <<>>
    /\ sorted = <<>>
    /\ min_px = <<>>
    /\ signatures = <<>>
    /\ args = <<>>
    /\ train_points = <<>>
    /\ table_points_list = <<>>
    /\ prepared = <<>>

Spec == Init /\ [][Next]_vars

-----------------------------------------------------------------------------
(* DTWClassification, examples/twdtw_sudan.js lines 171 to 230: the class    *)
(* reduction.  reference_signatures_agg maps each class key to its number of *)
(* signatures; dtw_min_dist is mapped over it, in the order of the keys.     *)

\* .toByte(): saturating cast
ToByte(v) == IF v > ByteMax THEN ByteMax ELSE IF v < 0 THEN 0 ELSE v

\* the class keys not mapped yet
KeysLeft == {c \in DOMAIN class_dist : \A m \in 1..Len(class_list) : class_list[m].key /= c}

\* dtw_min_dist(key, val), lines 173 to 199: the distance of the class as band
\* 'dtw' and the class key, as a byte, as band 'band'
dtw_min_dist(key) == [key |-> key, dtw |-> class_dist[key], band |-> ToByte(key)]

\* as SortKey, the second band
SortKeyBand(row) == row[2]

\* line 215: the sort key of a row of the array, its first band
SortKey(row) == row[1]

\* an ascending order of the rows by their sort key
IsSorted(rows) == \A m \in 1..(Len(rows) - 1) : SortKey(rows[m]) <= SortKey(rows[m + 1])

\* lines 216: array.arraySort(sort): the rows in ascending order of the key;
\* the order of rows of equal key is not specified
ArraySorts(rows) == {[m \in 1..Len(rows) |-> rows[perm[m]]] : perm \in {f \in [1..Len(rows) -> 1..Len(rows)] : (\A a, b \in 1..Len(rows) : a /= b => f[a] /= f[b]) /\ IsSorted([m \in 1..Len(rows) |-> rows[f[m]]])}}

\* line 219: sorted.arraySlice(axes.image, 0, 1): the first row
FirstImage(rows) == rows[1]

\* line 208: dtw_min_dist runs for the next class key
MapClass ==
    /\ pc = "classes"
    /\ KeysLeft /= {}
    /\ class_list' = Append(class_list, dtw_min_dist(CHOOSE c \in KeysLeft : \A o \in KeysLeft : c <= o))
    /\ UNCHANGED <<pc, class_dist, array, sorted, min_px>>
    /\ UNCHANGED dtw_vars
    /\ UNCHANGED prep_vars

\* line 211: the images of all classes become one array, a row per image
ToArray ==
    /\ pc = "classes"
    /\ KeysLeft = {}
    /\ array' = [m \in 1..Len(class_list) |-> <<class_list[m].dtw, class_list[m].band>>]
    /\ pc' = "sort"
    /\ UNCHANGED <<class_dist, class_list, sorted, min_px>>
    /\ UNCHANGED dtw_vars
    /\ UNCHANGED prep_vars

\* lines 214 to 216: the rows are sorted by the score
ArraySort ==
    /\ pc = "sort"
    /\ sorted' \in ArraySorts(array)
    /\ pc' = "slice"
    /\ UNCHANGED <<class_dist, class_list, array, min_px>>
    /\ UNCHANGED dtw_vars
    /\ UNCHANGED prep_vars

\* lines 219 to 227: the first row gives the score and the class
TakeFirst ==
    /\ pc = "slice"
    /\ min_px' = [dtw |-> FirstImage(sorted)[1], band |-> FirstImage(sorted)[2]]
    /\ pc' = "classified"
    /\ UNCHANGED <<class_dist, class_list, array, sorted>>
    /\ UNCHANGED dtw_vars
    /\ UNCHANGED prep_vars

NextClass == MapClass \/ ToArray \/ ArraySort \/ TakeFirst

\* the class keys of the model
ClassKeys == 0..MaxClass

\* distances DTWDist may return for a class: whole numbers (toUint16)
ClassDistances == {0, 1, 3, 7}

InitClass ==
    /\ \E cs \in (SUBSET ClassKeys) \ {{}} : class_dist \in [cs -> ClassDistances]
    /\ pc = "classes"
    /\ class_list = <<>>
    /\ array = <<>>
    /\ sorted = <<>>
    /\ min_px = <<>>
    /\ timeseries_col = <<>>
    /\ patterns_arr = <<>>
    /\ options = NoOptions
    /\ k = 0
    /\ dis_mat = <<>>
    /\ d_mat = <<>>
    /\ D_mat = <<>>
    /\ x = 0
    /\ dtw_image_list = <<>>
    /\ result = <<>>
    /\ signatures = <<>>
    /\ args = <<>>
    /\ train_points = <<>>
    /\ table_points_list = <<>>
    /\ prepared = <<>>

SpecClass == InitClass /\ [][NextClass]_vars

-----------------------------------------------------------------------------
(* prepareSignatures, dtw.js lines 264 to 272.  A feature is a record of    *)
(* its class (the property class_name) and its other properties, a function *)
(* from property names to values.                                           *)

\* line 265: the features whose class_name property equals class_no
OfClass(feats, class_no) == LET is(f) == f.class = class_no IN SelectSeq(feats, is)

\* line 268: the values of one feature, in the order of band_names
BandValuesOf(feat, band_names) == [m \in 1..Len(band_names) |-> feat.props[band_names[m]]]

\* the elements of a list of lists in row-major order, as ee.Array lays them out
RECURSIVE Flatten(_)
Flatten(rows) == IF rows = <<>> THEN <<>> ELSE Head(rows) \o Flatten(Tail(rows))

\* as Reshape, with the steps as the slower axis and the bands as the faster
ReshapeStepMajor(flat, B1, T) == [q \in 1..(Len(flat) \div (B1 * T)) |-> [b \in 1..B1 |-> [t \in 1..T |-> ToInt16(flat[(q - 1) * B1 * T + (t - 1) * B1 + b])]]]

\* line 271: reshape([-1, band_no + 1, patterns_len]).toInt16() of the flat
\* list: B1 rows of T values per signature
Reshape(flat, B1, T) == [q \in 1..(Len(flat) \div (B1 * T)) |-> [b \in 1..B1 |-> [t \in 1..T |-> ToInt16(flat[(q - 1) * B1 * T + (b - 1) * T + t])]]]

\* whether reshape can lay the flat list out in signatures of B1 x T values
Reshapes(flat, B1, T) == B1 * T > 0 /\ Len(flat) % (B1 * T) = 0

\* line 265: signatures.filter(ee.Filter.eq(class_name, class_no)); the
\* select(band_names) only drops properties that line 268 never reads
FilterClass ==
    /\ pc = "filter"
    /\ train_points' = OfClass(signatures, args.class_no)
    /\ pc' = "table"
    /\ UNCHANGED <<signatures, args, table_points_list, prepared>>
    /\ UNCHANGED dtw_vars
    /\ UNCHANGED class_vars

\* lines 266 to 269: every feature becomes the list of its values
TablePoints ==
    /\ pc = "table"
    /\ table_points_list' = [m \in 1..Len(train_points) |-> BandValuesOf(train_points[m], args.band_names)]
    /\ pc' = "reshape"
    /\ UNCHANGED <<signatures, args, train_points, prepared>>
    /\ UNCHANGED dtw_vars
    /\ UNCHANGED class_vars

\* line 271: the array is reshaped and cast.  The source does not settle what
\* ee.Array does with an empty list: either outcome is possible
ReshapeArray ==
    /\ pc = "reshape"
    /\ IF table_points_list = <<>>
       THEN prepared' = <<>> /\ pc' \in {"prepared", "error"}
       ELSE IF Reshapes(Flatten(table_points_list), args.band_no + 1, args.patterns_len)
            THEN prepared' = Reshape(Flatten(table_points_list), args.band_no + 1, args.patterns_len) /\ pc' = "prepared"
            ELSE prepared' = <<>> /\ pc' = "error"
    /\ UNCHANGED <<signatures, args, train_points, table_points_list>>
    /\ UNCHANGED dtw_vars
    /\ UNCHANGED class_vars

NextPrepare == FilterClass \/ TablePoints \/ ReshapeArray

\* the property names of one band and the day of year, two steps each
TwoStepNames == <<"ndvi", "ndvi_1", "doy", "doy_1">>

\* the properties of the features of the model: values that tell the bands
\* and steps apart, and values beyond the range of Int16
FeatureProps == {[ndvi |-> 11, ndvi_1 |-> 12, doy |-> 1, doy_1 |-> 2], [ndvi |-> 21, ndvi_1 |-> 22, doy |-> 3, doy_1 |-> 4], [ndvi |-> 40000, ndvi_1 |-> -40000, doy |-> 5, doy_1 |-> 6]}

\* the class labels of the features of the model
ClassLabels == 0..2

\* the calls of the model: one band and two steps; one band and one step;
\* four names for one band and one step
PrepareArgs == {[class_no |-> c, band_no |-> 1, patterns_len |-> a.T, band_names |-> a.names] : c \in 0..1, a \in {[T |-> 2, names |-> TwoStepNames], [T |-> 1, names |-> <<"ndvi", "doy">>], [T |-> 1, names |-> TwoStepNames], [T |-> 3, names |-> TwoStepNames]}}

InitPrepare ==
    /\ signatures \in UNION {[1..n -> [class : ClassLabels, props : FeatureProps]] : n \in 1..3}
    /\ args \in PrepareArgs
    /\ pc = "filter"
    /\ train_points = <<>>
    /\ table_points_list = <<>>
    /\ prepared = <<>>
    /\ timeseries_col = <<>>
    /\ patterns_arr = <<>>
    /\ options = NoOptions
    /\ k = 0
    /\ dis_mat = <<>>
    /\ d_mat = <<>>
    /\ D_mat = <<>>
    /\ x = 0
    /\ dtw_image_list = <<>>
    /\ result = <<>>
    /\ class_dist = <<>>
    /\ class_list = <<>>
    /\ array = <<>>
    /\ sorted = <<>>
    /\ min_px = <<>>

SpecPrepare == InitPrepare /\ [][NextPrepare]_vars

-----------------------------------------------------------------------------
(* Vocabulary of the properties *)

\* the cumulative matrix of pattern k is completely filled
FillComplete == pc = "interior" /\ x > Len(matrix) - 1

\* the distance of a pattern has been reported and its matrices are still there
Reported == dtw_image_list /= <<>> /\ (pc = "min" \/ pc = "done" \/ pc = "dis_mat")

\* dis_mat is the local cost matrix of the current pattern k
CostBuilt == pc = "row0" \/ pc = "col0" \/ pc = "interior"

\* DTWDist has returned or failed
Ended == pc = "done" \/ pc = "error"

\* the day gap of series step i and step j of pattern kk (both 1-based)
Gap(i, j, kk) == Abs(timeseries_col[i].doy - patterns_arr[kk][Len(patterns_arr[kk])][j])

\* the kernel cost of series step i and step j of pattern kk: the squared
\* differences summed over the bands of the pattern
RECURSIVE SquaresUpTo(_, _, _, _)
SquaresUpTo(i, j, kk, n) == IF n = 0 THEN 0 ELSE (timeseries_col[i].bands[n] - patterns_arr[kk][n][j]) * (timeseries_col[i].bands[n] - patterns_arr[kk][n][j]) + SquaresUpTo(i, j, kk, n - 1)

Kernel(i, j, kk) == SquaresUpTo(i, j, kk, Len(patterns_arr[kk]) - 1)

\* the square root of c on the fixed-point grid
Root(c) == CHOOSE r \in 0..(Scale * c) : r * r <= c * Scale * Scale /\ c * Scale * Scale < (r + 1) * (r + 1)

\* the temporal weight that cell (i, j) of dis_mat holds on top of sqrt(cost)
AddedWeight(i, j) == dis_mat[i][j] - Root(Kernel(i, j, k))

\* the single-band series 1, 1, 2 against the single pattern 1, 2, 2, every
\* image on its own day
IsExample ==
    /\ Len(timeseries_col) = 3
    /\ timeseries_col[1].bands = <<1>> /\ timeseries_col[2].bands = <<1>> /\ timeseries_col[3].bands = <<2>>
    /\ \A a, b \in 1..3 : a /= b => timeseries_col[a].doy /= timeseries_col[b].doy
    /\ Len(patterns_arr) = 1 /\ patterns_arr[1][1] = <<1, 2, 2>>
    /\ distance_type = "euclidean"

\* every cell of the alignment with pattern 1 is inside the window
AllInside == \A i \in 1..Len(timeseries_col) : \A j \in 1..Len(patterns_arr[1][1]) : Gap(i, j, 1) <= beta

-----------------------------------------------------------------------------
(* C1: when the cumulative matrix D of a pattern is filled, it has          *)
(* timeseries_len rows of patterns_len cells, D[0][0] = d[0][0], the first  *)
(* row and the first column accumulate d, every interior cell is d plus the *)
(* least of its three neighbours, and the distance reported for the pattern *)
(* is the last cell of the last row.                                        *)

C1_Recurrence ==
    (FillComplete \/ Reported) =>
        /\ Len(D_mat) = timeseries_len
        /\ \A i \in 1..timeseries_len : Len(D_mat[i]) = patterns_len
        /\ D_mat[1][1] = dis_mat[1][1]
        /\ \A j \in 2..patterns_len : D_mat[1][j] = D_mat[1][j - 1] + dis_mat[1][j]
        /\ \A i \in 2..timeseries_len : D_mat[i][1] = D_mat[i - 1][1] + dis_mat[i][1]
        /\ \A i \in 2..timeseries_len : \A j \in 2..patterns_len :
              /\ D_mat[i][j] - dis_mat[i][j] <= D_mat[i - 1][j]
              /\ D_mat[i][j] - dis_mat[i][j] <= D_mat[i][j - 1]
              /\ D_mat[i][j] - dis_mat[i][j] <= D_mat[i - 1][j - 1]
              /\ D_mat[i][j] - dis_mat[i][j] \in {D_mat[i - 1][j], D_mat[i][j - 1], D_mat[i - 1][j - 1]}
        /\ Reported => dtw_image_list[Len(dtw_image_list)] = D_mat[timeseries_len][patterns_len]

\* a 3 x 3 alignment has been filled and reported, and some interior cell
\* took the diagonal neighbour, strictly below the other two
C1_Witness ==
    /\ pc = "done"
    /\ timeseries_len = 3 /\ patterns_len = 3
    /\ \A i \in 1..3 : Len(dis_mat[i]) = 3 /\ \A j \in 1..3 : dis_mat[i][j] < Penalty
    /\ \E i \in 2..3 : \E j \in 2..3 : D_mat[i - 1][j - 1] < D_mat[i - 1][j] /\ D_mat[i - 1][j - 1] < D_mat[i][j - 1]

-----------------------------------------------------------------------------
(* C2, as stated: with constraint_type = none and euclidean distance, the   *)
(* series 1, 1, 2 against the pattern 1, 2, 2 ends with D[2][2] = 1.        *)

-----------------------------------------------------------------------------
(* C3: with constraint_type = none and euclidean distance, the series       *)
(* 1, 1, 2 against the pattern 1, 2, 2 gives the local cost matrix          *)
(* [[0,1,1],[0,1,1],[1,0,0]] and the cumulative matrix                      *)
(* [[0,1,2],[0,1,2],[1,0,0]].                                               *)

C3_Original ==
    (IsExample /\ constraint_type = "none" /\ Ended) =>
        /\ pc = "done"
        /\ dis_mat = <<<<0, Scale, Scale>>, <<0, Scale, Scale>>, <<Scale, 0, 0>>>>
        /\ D_mat = <<<<0, Scale, 2 * Scale>>, <<0, Scale, 2 * Scale>>, <<Scale, 0, 0>>>>

-----------------------------------------------------------------------------
(* C4: the distance DTWDist returns is the least of the alignment distances *)
(* of the observation against the instances of patterns_arr, every instance *)
(* counted, whatever their order.                                           *)

C4_Original ==
    pc = "done" =>
        /\ Len(dtw_image_list) = Len(patterns_arr)
        /\ \E m \in 1..Len(dtw_image_list) : result[1] * Scale = dtw_image_list[m]
        /\ \A m \in 1..Len(dtw_image_list) : result[1] * Scale <= dtw_image_list[m]

-----------------------------------------------------------------------------
(* C6: with constraint_type = none DTWDist computes a distance, and every   *)
(* cell of the local cost matrix is sqrt(cost): no weight, no penalty.      *)

C6_Original ==
    (constraint_type = "none" /\ Ended) =>
        /\ pc = "done"
        /\ \A i \in 1..timeseries_len : \A j \in 1..patterns_len : dis_mat[i][j] = Root(Kernel(i, j, k))

-----------------------------------------------------------------------------
(* C7: with the logistic weight and alpha > 0, the weight added to a cell   *)
(* does not decrease when the day gap grows.                                *)

C7_Original ==
    (CostBuilt /\ constraint_type = "time-weighted" /\ weight_type = "logistic" /\ alpha > 0) =>
        \A i1, i2 \in 1..timeseries_len : \A j1, j2 \in 1..patterns_len :
            Gap(i1, j1, k) <= Gap(i2, j2, k) => AddedWeight(i1, j1) <= AddedWeight(i2, j2)

-----------------------------------------------------------------------------
(* C8: with the logistic weight, the weight added to a cell whose day gap   *)
(* equals beta is 0.5.                                                      *)

C8_Original ==
    (CostBuilt /\ constraint_type = "time-weighted" /\ weight_type = "logistic") =>
        \A i \in 1..timeseries_len : \A j \in 1..patterns_len :
            Gap(i, j, k) = beta => AddedWeight(i, j) = Scale \div 2

-----------------------------------------------------------------------------
(* C9: under time-constrained, cell (i, j) of the local cost matrix is      *)
(* sqrt(cost) when the day gap is at most beta and the penalty 1e6 when it  *)
(* is larger.                                                               *)

C9_Original ==
    (CostBuilt /\ constraint_type = "time-constrained") =>
        \A i \in 1..timeseries_len : \A j \in 1..patterns_len :
            dis_mat[i][j] = IF Gap(i, j, k) <= beta THEN Root(Kernel(i, j, k)) ELSE Penalty * Scale

-----------------------------------------------------------------------------
(* C10: under time-constrained, whenever some warping path from the first   *)
(* cell to the last one uses only cells with a day gap of at most beta, the *)
(* distance of the pattern is that of such a path: it stays below the       *)
(* penalty 1e6.                                                             *)

\* some warping path from cell (1, 1) to cell (i, j) has only cells inside
\* the window of pattern k
RECURSIVE PathInside(_, _)
PathInside(i, j) ==
    /\ Gap(i, j, k) <= beta
    /\ \/ i = 1 /\ j = 1
       \/ i > 1 /\ PathInside(i - 1, j)
       \/ j > 1 /\ PathInside(i, j - 1)
       \/ i > 1 /\ j > 1 /\ PathInside(i - 1, j - 1)

C10_Original ==
    (FillComplete /\ constraint_type = "time-constrained" /\ PathInside(timeseries_len, patterns_len)) =>
        D_mat[timeseries_len][patterns_len] < Penalty * Scale

-----------------------------------------------------------------------------
(* C5: when the distances of the classes are pairwise distinct, the class   *)
(* reduction returns the least of them as the score and, as the class, the  *)
(* key of the class that produced it.                                       *)

\* no two classes have the same distance
DistinctDistances == \A a, b \in DOMAIN class_dist : a /= b => class_dist[a] /= class_dist[b]

-----------------------------------------------------------------------------
(* C11: under time-constrained, when every warping path of the only pattern *)
(* passes through a cell with a day gap above beta, the distance DTWDist    *)
(* returns is at least the penalty 1e6.                                     *)

C11_Original ==
    (pc = "done" /\ constraint_type = "time-constrained" /\ Len(patterns_arr) = 1 /\ ~PathInside(timeseries_len, patterns_len)) =>
        result[1] >= Penalty

-----------------------------------------------------------------------------
(* C12: the score DTWDist returns equals the least of the last cells of the *)
(* cumulative matrices exactly: no rounding, no truncation, no clamping.    *)

C12_Original == pc = "done" => result[1] * Scale = MinOf(dtw_image_list)

-----------------------------------------------------------------------------
(* C13: when timeseries_len < 1, or patterns_len < 1, or the observation    *)
(* does not have as many bands as the patterns, DTWDist ends in an error    *)
(* before any cell of the cumulative matrix is computed, and returns no     *)
(* distance.                                                                *)

\* some image of the collection has a band count other than the patterns'
BandMismatch == \E a \in 1..Len(timeseries_col) : Len(timeseries_col[a].bands) /= Len(patterns_arr[1]) - 1

C13_Original ==
    (Ended /\ (timeseries_len < 1 \/ patterns_len < 1 \/ BandMismatch)) =>
        (pc = "error" /\ D_mat = <<>> /\ d_mat = <<>> /\ result = <<>>)

-----------------------------------------------------------------------------
(* C14: when constraint_type, weight_type or distance_type is given a value *)
(* outside its recognized set, DTWDist ends in an error and returns no      *)
(* distance.                                                                *)

\* option o is given and its value is not in set S
Outside(o, S) == o /= <<>> /\ o[1] \notin S

\* some string option holds a value outside its recognized set
Unrecognized ==
    \/ Outside(options.constraint_type, {"none", "time-weighted", "time-constrained"})
    \/ Outside(options.weight_type, {"logistic", "linear"})
    \/ Outside(options.distance_type, {"euclidean", "angular"})

C14_Original == (Ended /\ Unrecognized) => (pc = "error" /\ result = <<>>)

-----------------------------------------------------------------------------
(* C15: once the options are read, each of constraint_type, weight_type,    *)
(* distance_type, beta and alpha is its documented default when the caller  *)
(* omitted it, and the caller's value otherwise, beta = 0 and alpha = 0     *)
(* included.                                                                *)

\* the value of option o: d when omitted, the caller's value when given
Documented(o, d) == IF o = <<>> THEN d ELSE o[1]

C15_Original ==
    pc /= "map" =>
        /\ constraint_type = Documented(options.constraint_type, "time-weighted")
        /\ weight_type = Documented(options.weight_type, "logistic")
        /\ distance_type = Documented(options.distance_type, "euclidean")
        /\ beta = Documented(options.beta, BetaDefault)
        /\ alpha = Documented(options.alpha, Scale \div 10)

-----------------------------------------------------------------------------
(* C16, as stated: called with as many band names as (band_no + 1) * patterns_len,     *)
(* prepareSignatures returns one block per signature of class class_no, in  *)
(* their order and none of another class, each of band_no + 1 rows of       *)
(* patterns_len values, and element [p, b, t] is the value of property      *)
(* band_names[b * patterns_len + t] of signature p.                         *)

\* the positions in signatures of the features of class class_no, ascending
RECURSIVE MembersFrom(_)
MembersFrom(m) == IF m > Len(signatures) THEN <<>> ELSE (IF signatures[m].class = args.class_no THEN <<m>> ELSE <<>>) \o MembersFrom(m + 1)

\* band_names names exactly the (band_no + 1) * patterns_len values
NamesFit == Len(args.band_names) = (args.band_no + 1) * args.patterns_len

-----------------------------------------------------------------------------
(* C17: when no cell of the local cost matrix d is negative, the distance   *)
(* of a pattern, the last cell of the filled cumulative matrix, is the      *)
(* least sum of d over the warping paths from the first cell to the last    *)
(* cell that advance by one row, one column, or both.                       *)

\* the sums of d over every warping path from cell (1, 1) to cell (i, j)
RECURSIVE PathSums(_, _)
PathSums(i, j) ==
    IF i = 1 /\ j = 1 THEN {dis_mat[1][1]}
    ELSE {dis_mat[i][j] + c : c \in (IF i > 1 THEN PathSums(i - 1, j) ELSE {}) \cup (IF j > 1 THEN PathSums(i, j - 1) ELSE {}) \cup (IF i > 1 /\ j > 1 THEN PathSums(i - 1, j - 1) ELSE {})}

\* no cell of d that the alignment uses is negative
NonNegative == \A i \in 1..timeseries_len : \A j \in 1..patterns_len : dis_mat[i][j] >= 0

C17_MinPath ==
    ((FillComplete \/ Reported) /\ NonNegative) =>
        /\ D_mat[timeseries_len][patterns_len] \in PathSums(timeseries_len, patterns_len)
        /\ \A c \in PathSums(timeseries_len, patterns_len) : D_mat[timeseries_len][patterns_len] <= c

\* a 3 x 3 alignment is reported, its paths have at least three different
\* sums, and the cheapest path is cheaper than the path along the diagonal
C17_Witness ==
    /\ pc = "done" /\ NonNegative
    /\ timeseries_len = 3 /\ patterns_len = 3
    /\ Cardinality(PathSums(3, 3)) >= 3
    /\ D_mat[3][3] < dis_mat[1][1] + dis_mat[2][2] + dis_mat[3][3]

-----------------------------------------------------------------------------
(* C18: with the angular distance, the kernel cost of series step i and     *)
(* pattern step j is zero when i is the first series step or j is the first *)
(* pattern step, and for every other pair it is the angle computed with     *)
(* series step i - 1 and pattern step j - 1 as the predecessors.            *)

\* the angle, in band n, between series steps (i, i - 1) and steps
\* (j, j - 1) of pattern kk, for i > 1 and j > 1
Angle(i, j, kk, n) ==
    LET xa == timeseries_col[i].bands[n]
        xb == timeseries_col[i - 1].bands[n]
        ya == patterns_arr[kk][n][j]
        yb == patterns_arr[kk][n][j - 1]
    IN  Acos(CosineOf(xa * ya + xb * yb, xa * xa + xb * xb, ya * ya + yb * yb))

\* the angles summed over the bands 1 .. n
RECURSIVE AnglesUpTo(_, _, _, _)
AnglesUpTo(i, j, kk, n) == IF n = 0 THEN 0 ELSE Angle(i, j, kk, n) + AnglesUpTo(i, j, kk, n - 1)

\* what cell (i, j) of dis_mat holds on top of the temporal weight
OverWeight(i, j) == dis_mat[i][j] - cost_weight(Gap(i, j, k))

C18_Original ==
    (CostBuilt /\ distance_type = "angular") =>
        \A i \in 1..timeseries_len : \A j \in 1..patterns_len :
            OverWeight(i, j) = IF i = 1 \/ j = 1 THEN 0 ELSE SqrtFP(AnglesUpTo(i, j, k, band_no))

-----------------------------------------------------------------------------
(* C19: whatever the order of the images in timeseries_col, row i of the    *)
(* local cost matrix belongs to the i-th earliest image.  Stated for        *)
(* time-constrained and images of pairwise different days.                  *)

\* no two images have the same day of year
DistinctDays == \A a, b \in 1..Len(timeseries_col) : a /= b => timeseries_col[a].doy /= timeseries_col[b].doy

\* the position in the collection of the a-th earliest image
Earliest(a) == CHOOSE b \in 1..Len(timeseries_col) : Cardinality({c \in 1..Len(timeseries_col) : timeseries_col[c].doy < timeseries_col[b].doy}) = a - 1

C19_Original ==
    (CostBuilt /\ constraint_type = "time-constrained" /\ DistinctDays) =>
        \A a \in 1..timeseries_len : \A j \in 1..patterns_len :
            dis_mat[a][j] = IF Gap(Earliest(a), j, k) <= beta THEN Root(Kernel(Earliest(a), j, k)) ELSE Penalty * Scale

-----------------------------------------------------------------------------
(* C20: at every step of the fill of the interior, the three cells the step *)
(* reads, D[i-1][j], D[i][j-1] and D[i-1][j-1], hold the value they have in *)
(* the finished matrix, so no placeholder copied from the previous row is   *)
(* read; the cell the step writes was not written by an earlier step, and   *)
(* the steps write every interior cell.                                     *)

\* the value of cell (i, j) (1-based) in the finished cumulative matrix
RECURSIVE FinalCell(_, _)
FinalCell(i, j) ==
    IF i = 1 /\ j = 1 THEN dis_mat[1][1]
    ELSE IF i = 1 THEN FinalCell(1, j - 1) + dis_mat[1][j]
    ELSE IF j = 1 THEN FinalCell(i - 1, 1) + dis_mat[i][1]
    ELSE dis_mat[i][j] + Min2(Min2(FinalCell(i - 1, j), FinalCell(i, j - 1)), FinalCell(i - 1, j - 1))

\* the interior step at position x is about to run
StepPending == pc = "interior" /\ x <= Len(matrix) - 1

C20_FillOrder ==
    StepPending =>
        LET i == matrix[x + 1][1] + 1
            j == matrix[x + 1][2] + 1
        IN  /\ D_mat[i - 1][j] = FinalCell(i - 1, j)
            /\ D_mat[i][j - 1] = FinalCell(i, j - 1)
            /\ D_mat[i - 1][j - 1] = FinalCell(i - 1, j - 1)
            /\ \A y \in 1..x : matrix[y] /= matrix[x + 1]
            /\ \A a \in 2..timeseries_len : \A b \in 2..patterns_len : \E y \in 1..Len(matrix) : matrix[y] = <<a - 1, b - 1>>

\* a 3 x 3 fill is about to write the first interior cell of the last row,
\* while that cell and its right neighbour still hold placeholders that
\* differ from their final values
C20_Witness ==
    /\ StepPending
    /\ timeseries_len = 3 /\ patterns_len = 3
    /\ matrix[x + 1] = <<2, 1>>
    /\ D_mat[3][2] /= FinalCell(3, 2)
    /\ D_mat[3][3] /= FinalCell(3, 3)

-----------------------------------------------------------------------------
(* C21: under time-constrained, every row of the local cost matrix has      *)
(* exactly patterns_len entries, one per pattern step j in increasing j,    *)
(* also when two images of the series carry the same day of year.           *)

\* the pattern steps of the entries of row a of dis_mat, in the order of the row
RowSteps(a) == LET srt == SortByJ(dis_list0(k, timeseries_col[a]) \o PenaltyList(k, timeseries_col[a]), 1) IN [m \in 1..Len(srt) |-> srt[m].j]

C21_Original ==
    (CostBuilt /\ constraint_type = "time-constrained") =>
        \A a \in 1..Len(dis_mat) :
            /\ Len(dis_mat[a]) = patterns_len
            /\ RowSteps(a) = [m \in 1..patterns_len |-> m]

-----------------------------------------------------------------------------
(* C22: every combination of a supported constraint_type (time-weighted,    *)
(* time-constrained) with a supported distance_type (euclidean, angular)    *)
(* makes DTWDist return a distance, time-constrained with angular included: *)
(* on inputs whose sizes fit, no such call ends in an error.                *)

\* the constraint, weight and distance types are supported ones
Supported ==
    /\ constraint_type \in {"time-weighted", "time-constrained"}
    /\ weight_type \in {"logistic", "linear"}
    /\ distance_type \in {"euclidean", "angular"}

\* every position the code reads exists: a non-empty series, and patterns of
\* the stated sizes
SizesFit == \A kk \in 1..patterns_no : ~OutOfRange(kk)

C22_Original == (Ended /\ Supported /\ SizesFit) => (pc = "done" /\ result /= <<>>)

=============================================================================
